---- MODULE Spec2Model ----
(***************************************************************************)
(* Model of img2dataset/downloader.py: the retry wrapper                   *)
(* download_image_with_retry, the key formatter compute_key, and the       *)
(* per-shard pipeline Downloader.__call__ / Downloader.download_shard      *)
(* (row feeder behind a semaphore, thread pool of fetch workers, draining  *)
(* coordinator that post-processes every result and calls the writer).     *)
(***************************************************************************)
EXTENDS Integers, Sequences, FiniteSets, TLC

\* Python's None.
None == "None"

\* ------------------------------------------------------------------ bounds
MaxRows == 3        \* rows of a shard: count \in 0..MaxRows
MaxThreads == 2     \* thread_count \in 1..MaxThreads
MaxRetries == 1     \* retries \in 0..MaxRetries
MaxListLen == 2     \* elements of a list-URL cell
MaxHeaderLen == 3   \* characters of an X-Robots-Tag header value

\* -------------------------------------------------------------- input data
\* Response bodies a server can return, and their digest under the
\* verification algorithm; every row's payload carries the digest "h1".
Bodies == {"b1", "b2"}

Digest(body) == IF body = "b1" THEN "h1" ELSE "h2"

PayloadHash == "h1"

\* Error strings download_image can return.
FetchErrors == {"timed out", "HTTP Error 404"}

\* The URL strings of a list cell; the element at position i is null or the
\* URL UrlName[i] (distinct positions hold distinct URLs).
UrlName == <<"u1", "u2", "u3", "u4">>

ListUrls ==
    UNION {{u \in [1..n -> {None} \cup {UrlName[i] : i \in 1..n}] :
                \A i \in 1..n : u[i] \in {None, UrlName[i]}} : n \in 0..MaxListLen}

\* The list [a, null, b].
ScenarioList == <<"u1", None, "u3">>

\* A url cell: a single string (is_list FALSE) or a list of strings and nulls.
UrlCells ==
    {[is_list |-> FALSE, urls |-> <<"u1">>]}
        \cup {[is_list |-> TRUE, urls |-> u] : u \in ListUrls \cup {ScenarioList}}

RECURSIVE NonNull(_)
NonNull(urls) ==
    IF urls = <<>> THEN <<>>
    ELSE IF Head(urls) = None THEN NonNull(Tail(urls))
         ELSE <<Head(urls)>> \o NonNull(Tail(urls))

\* ------------------------------------------- is_disallowed, download_image
\* A string is a sequence of characters; a word of letters counts as one
\* character, in capitals or in small letters.
Lower(ch) ==
    IF ch = "NOAI" THEN "noai"
    ELSE IF ch = "MyBot" THEN "mybot"
    ELSE ch

\* str.lower()
LowerStr(str) == [i \in 1..Len(str) |-> Lower(str[i])]

\* str.strip()
RECURSIVE LStrip(_)
LStrip(str) ==
    IF str # <<>> /\ Head(str) = " " THEN LStrip(Tail(str)) ELSE str

RECURSIVE RStrip(_)
RStrip(str) ==
    IF str # <<>> /\ str[Len(str)] = " " THEN RStrip(SubSeq(str, 1, Len(str) - 1)) ELSE str

Strip(str) == RStrip(LStrip(str))

\* The position of the first occurrence of ch in str, 0 when there is none.
Find(str, ch) ==
    IF \E i \in 1..Len(str) : str[i] = ch
    THEN CHOOSE i \in 1..Len(str) : str[i] = ch /\ \A j \in 1..(i - 1) : str[j] # ch
    ELSE 0

\* str.split(":", 1): one part, or the parts before and after the first colon.
SplitColonOnce(str) ==
    LET i == Find(str, ":")
    IN IF i = 0 THEN <<str>>
       ELSE <<SubSeq(str, 1, i - 1), SubSeq(str, i + 1, Len(str))>>

\* str.split(",")
RECURSIVE SplitComma(_)
SplitComma(str) ==
    LET i == Find(str, ",")
    IN IF i = 0 THEN <<str>>
       ELSE <<SubSeq(str, 1, i - 1)>> \o SplitComma(SubSeq(str, i + 1, Len(str)))

\* An optional string: Python's None, or a str.
NoToken == [present |-> FALSE, text |-> <<>>]

Token(str) == [present |-> TRUE, text |-> str]

is_disallowed_mutant(headers, user_agent_token, disallowed_header_directives) ==
    \E h \in 1..Len(headers) :
        LET uatoken_directives == SplitColonOnce(headers[h])
            parts == SplitComma(uatoken_directives[Len(uatoken_directives)])
        IN \E x \in 1..Len(parts) :
              LowerStr(Strip(parts[x])) \in disallowed_header_directives

\* Lines 20-34: TRUE when a header value disallows the use of the image.
is_disallowed(headers, user_agent_token, disallowed_header_directives) ==
    \E h \in 1..Len(headers) :
        LET uatoken_directives == SplitColonOnce(headers[h])
            parts == SplitComma(uatoken_directives[Len(uatoken_directives)])
            directives == [x \in 1..Len(parts) |-> LowerStr(Strip(parts[x]))]
            ua_token == IF Len(uatoken_directives) = 2
                        THEN Token(LowerStr(uatoken_directives[1]))
                        ELSE NoToken
        IN /\ (~ua_token.present \/ ua_token = user_agent_token)
           /\ \E x \in 1..Len(directives) : directives[x] \in disallowed_header_directives

DisallowedMessage == "Use of image disallowed by X-Robots-Tag directive"

\* Lines 37-58: download_image for a response r of the server (r.err is what
\* urlopen or read raised, None when nothing); the value is (img_stream, err).
\* An empty or missing set of directives switches the filter off.
download_image(r, user_agent_token, disallowed_header_directives) ==
    IF r.err # None
    THEN [img_stream |-> None, err |-> r.err]
    ELSE IF disallowed_header_directives # {}
            /\ is_disallowed(r.headers, user_agent_token, disallowed_header_directives)
    THEN [img_stream |-> None, err |-> DisallowedMessage]
    ELSE [img_stream |-> r.body, err |-> None]

\* --------------------------------------------- download_image_with_retry
\* att is the sequence of outcomes the successive calls of download_image
\* for one URL would give; i is the loop variable of `for i in range(retries + 1)`.
\* The result records, besides what the code returns, the number of calls made.
\* Lines 77-96: the attempts for one non-null element of a list cell.
RECURSIVE RetryElement(_, _, _, _)
RetryElement(att, nretries, i, error_msg) ==
    IF i >= nretries + 1
    THEN [img_stream |-> None, err |-> error_msg, attempts |-> i]
    ELSE IF att[i + 1].img_stream # None
         THEN [img_stream |-> att[i + 1].img_stream, err |-> None, attempts |-> i + 1]
         ELSE RetryElement(att, nretries, i + 1, att[i + 1].err)

RECURSIVE RetrySingleMutant(_, _, _)
RetrySingleMutant(att, nretries, i) ==
    IF i < nretries
    THEN RetrySingleMutant(att, nretries, i + 1)
    ELSE [img_stream |-> att[i + 1].img_stream, err |-> att[i + 1].err, attempts |-> i + 1]

\* Lines 104-113: the attempts for a single-URL cell (retries >= 0).
RECURSIVE RetrySingle(_, _, _)
RetrySingle(att, nretries, i) ==
    IF att[i + 1].img_stream # None
    THEN [img_stream |-> att[i + 1].img_stream, err |-> att[i + 1].err, attempts |-> i + 1]
    ELSE IF i < nretries
         THEN RetrySingle(att, nretries, i + 1)
         ELSE [img_stream |-> att[i + 1].img_stream, err |-> att[i + 1].err, attempts |-> i + 1]

\* Lines 71-99: the loop over the elements of a list cell; atts[j] is the
\* outcome sequence of the j-th element (unused for a null element). Each entry
\* of the list keeps the URL it was fetched from (src) beside (img_stream, error_msg).
RECURSIVE RetryList(_, _, _, _)
RetryList(urls, atts, nretries, j) ==
    IF j > Len(urls) THEN <<>>
    ELSE IF urls[j] = None THEN RetryList(urls, atts, nretries, j + 1)
         ELSE LET r == RetryElement(atts[j], nretries, 0, None)
              IN <<[img_stream |-> r.img_stream, err |-> r.err,
                    src |-> urls[j], attempts |-> r.attempts]>>
                     \o RetryList(urls, atts, nretries, j + 1)

\* Lines 61-113: the value returned for a row (key, url): for a list cell
\* (key, results, None), for a single cell (key, img_stream, err).
download_image_with_retry(key, url, atts, nretries) ==
    IF url.is_list
    THEN [key |-> key, is_list |-> TRUE, img_stream |-> None, error_message |-> None,
          results |-> RetryList(url.urls, atts, nretries, 1), attempts |-> 0]
    ELSE LET r == RetrySingle(atts[1], nretries, 0)
         IN [key |-> key, is_list |-> FALSE, img_stream |-> r.img_stream,
             error_message |-> r.err, results |-> <<>>, attempts |-> r.attempts]

\* ------------------------------------------------------------ compute_key
RECURSIVE Pow10(_)
Pow10(n) == IF n = 0 THEN 1 ELSE 10 * Pow10(n - 1)

\* Line 249: math.ceil(math.log10(n)) for n >= 1.
RECURSIVE CeilLog10From(_, _)
CeilLog10From(n, p) == IF Pow10(p) >= n THEN p ELSE CeilLog10From(n, p + 1)

oom_sample_per_shard_mutant(number_sample_per_shard) ==
    CeilLog10From(number_sample_per_shard + 1, 0)

oom_sample_per_shard(number_sample_per_shard) == CeilLog10From(number_sample_per_shard, 0)

\* The decimal digits of a nonnegative integer, most significant first.
RECURSIVE Digits(_)
Digits(n) == IF n < 10 THEN <<n>> ELSE Digits(n \div 10) \o <<n % 10>>

\* The format "{:0{width}d}": zeros on the left up to width, never a cut.
ZeroPad(digits, width) ==
    IF Len(digits) >= width THEN digits
    ELSE [i \in 1..(width - Len(digits)) |-> 0] \o digits

compute_key_mutant(key, shard_id, oom_sample, oom_shard_count) ==
    ZeroPad(Digits(Pow10(oom_sample) * shard_id + key), oom_shard_count)

\* Lines 116-122; a string is the sequence of its digits.
compute_key(key, shard_id, oom_sample, oom_shard_count) ==
    ZeroPad(Digits(Pow10(oom_sample) * shard_id + key), oom_sample + oom_shard_count)

\* ----------------------------------------------------- external Resizer
\* The image the resizer makes of a body.
Img(body) == IF body = "b1" THEN "img(b1)" ELSE "img(b2)"

BodyOf(img) == IF img = "img(b1)" THEN "b1" ELSE "b2"

\* What a call of the resizer can do: return an image, return an error
\* message, or raise.
ResizerOutcomes == {"ok", "err", "raise"}

\* resizer(img_stream, bbox_list) when it returns: (img, width, height,
\* original_width, original_height, error_message).
ResizerReturn(img_stream, rz) ==
    IF rz = "ok"
    THEN [img |-> Img(img_stream), width |-> "w", height |-> "h",
          original_width |-> "ow", original_height |-> "oh", error_message |-> None]
    ELSE [img |-> None, width |-> None, height |-> None,
          original_width |-> None, original_height |-> None,
          error_message |-> "cannot identify image"]

\* What a call of the writer's write / write_multi_images can do.
WriterOutcomes == {"ok", "raise"}

\* ------------------------------------------- per-row post-processing
\* Lines 264-278: the meta of a row before its status is known.
BaseMeta(str_key, error_message) ==
    [key |-> str_key, status |-> None, error_message |-> error_message,
     width |-> None, height |-> None,
     original_width |-> None, original_height |-> None]

NoMeta == BaseMeta(<<>>, None)

\* A call of the writer: op is "write" (img, meta) or "write_multi_images"
\* (multi); returned is FALSE when the call raised.
NoCall ==
    [op |-> "none", key |-> <<>>, img |-> None, meta |-> NoMeta, multi |-> <<>>,
     returned |-> FALSE]

\* The coordinator's variables one iteration of the loop of lines 251-500
\* reads and writes: the three counters, the writer calls made (the last one
\* and their number), the permits released, whether the iteration left by
\* `continue`, whether it raised, the resizer invocations, and the list
\* multi_img_results of a list row.
Ctx(s, fd, fr) ==
    [successes |-> s, failed_to_download |-> fd, failed_to_resize |-> fr,
     call |-> NoCall, ncalls |-> 0, released |-> 0, continued |-> FALSE,
     raised |-> FALSE, resized |-> 0, multi |-> <<>>]

\* sample_writer.write(img, str_key, caption, meta): the call is made; when
\* it raises, control goes to the except clause of line 497.
Write(c, img, meta, wr) ==
    [c EXCEPT !.call = [op |-> "write", key |-> meta.key, img |-> img, meta |-> meta,
                        multi |-> <<>>, returned |-> (wr = "ok")],
              !.ncalls = @ + 1,
              !.raised = (wr = "raise")]

\* sample_writer.write_multi_images(multi_img_results, str_key, caption).
WriteMulti(c, multi, str_key, wr) ==
    [c EXCEPT !.call = [op |-> "write_multi_images", key |-> str_key, img |-> None,
                        meta |-> NoMeta, multi |-> multi, returned |-> (wr = "ok")],
              !.ncalls = @ + 1,
              !.raised = (wr = "raise")]

EarlyExitMutant(c) ==
    IF c.raised THEN c ELSE [c EXCEPT !.released = @ + 1]

\* Lines 412-413, 432-433, 459-460: `semaphore.release(); continue`, reached
\* when the write before it returned.
EarlyExit(c) ==
    IF c.raised THEN c ELSE [c EXCEPT !.released = @ + 1, !.continued = TRUE]

AfterTryMutant(c) ==
    IF c.continued \/ c.raised THEN c ELSE [c EXCEPT !.released = @ + 1]

\* Line 500: semaphore.release() after the try statement, skipped by `continue`.
AfterTry(c) ==
    IF c.continued THEN c ELSE [c EXCEPT !.released = @ + 1]

VerifyHashMutant(hash_idx, img_stream, row) == TRUE

\* Lines 415-418: TRUE when the row goes on to the resizer.
VerifyHash(hash_idx, img_stream, row) ==
    hash_idx = None \/ Digest(img_stream) = row.hash

SuccessMetaMutant(meta, r) ==
    [meta EXCEPT !.status = "success", !.height = r.height,
                 !.original_width = r.original_width,
                 !.original_height = r.original_height]

\* Lines 357-361 and 483-487.
SuccessMeta(meta, r) ==
    [meta EXCEPT !.status = "success", !.width = r.width, !.height = r.height,
                 !.original_width = r.original_width,
                 !.original_height = r.original_height]

SingleBranchMutant(c, meta, hash_idx, row, res, rz, wr) ==
    IF res.error_message # None
    THEN EarlyExit(Write([c EXCEPT !.failed_to_download = @ + 1], None,
                         [meta EXCEPT !.status = "failed_to_download"], wr))
    ELSE IF ~VerifyHash(hash_idx, res.img_stream, row)
    THEN EarlyExit(Write([c EXCEPT !.failed_to_download = @ + 1, !.resized = @ + 1], None,
                         [meta EXCEPT !.status = "failed_to_download",
                                      !.error_message = "hash mismatch"], wr))
    ELSE IF rz = "raise"
    THEN [c EXCEPT !.resized = @ + 1, !.raised = TRUE]
    ELSE LET r == ResizerReturn(res.img_stream, rz)
             c1 == [c EXCEPT !.resized = @ + 1]
         IN IF r.error_message # None
            THEN EarlyExit(Write([c1 EXCEPT !.failed_to_resize = @ + 1], None,
                                 [meta EXCEPT !.status = "failed_to_resize",
                                              !.error_message = r.error_message], wr))
            ELSE Write([c1 EXCEPT !.successes = @ + 1], r.img, SuccessMeta(meta, r), wr)

\* Lines 401-496: the single-URL branch.
SingleBranch(c, meta, hash_idx, row, res, rz, wr) ==
    IF res.error_message # None
    THEN EarlyExit(Write([c EXCEPT !.failed_to_download = @ + 1], None,
                         [meta EXCEPT !.status = "failed_to_download"], wr))
    ELSE IF ~VerifyHash(hash_idx, res.img_stream, row)
    THEN EarlyExit(Write([c EXCEPT !.failed_to_download = @ + 1], None,
                         [meta EXCEPT !.status = "failed_to_download",
                                      !.error_message = "hash mismatch"], wr))
    ELSE IF rz = "raise"
    THEN [c EXCEPT !.resized = @ + 1, !.raised = TRUE]
    ELSE LET r == ResizerReturn(res.img_stream, rz)
             c1 == [c EXCEPT !.resized = @ + 1]
         IN IF r.error_message # None
            THEN EarlyExit(Write([c1 EXCEPT !.failed_to_resize = @ + 1], None,
                                 [meta EXCEPT !.status = "failed_to_resize",
                                              !.error_message = r.error_message], wr))
            ELSE Write([c1 EXCEPT !.successes = @ + 1], r.img, SuccessMeta(meta, r), wr)

AppendResultMutant(multi, entry) == <<entry>> \o multi

\* multi_img_results.append((img, single_meta)); src is the URL of the entry.
AppendResult(multi, entry) == Append(multi, entry)

RECURSIVE ListLoopMutant(_, _, _, _, _, _, _)
ListLoopMutant(c, meta, elems, rzs, idx, multi, any_success) ==
    IF idx > Len(elems)
    THEN [c |-> c, multi |-> multi, any_success |-> any_success]
    ELSE LET e == elems[idx] IN
         IF e.err # None
         THEN ListLoopMutant([c EXCEPT !.failed_to_download = @ + 1], meta, elems, rzs, idx + 1,
                       AppendResult(multi,
                           [img |-> None, src |-> e.src,
                            meta |-> [meta EXCEPT !.status = "failed_to_download",
                                                  !.error_message = e.err]]),
                       any_success)
         ELSE IF rzs[idx] = "raise"
         THEN [c |-> [c EXCEPT !.resized = @ + 1, !.raised = TRUE],
               multi |-> multi, any_success |-> any_success]
         ELSE LET r == ResizerReturn(e.img_stream, rzs[idx])
                  c1 == [c EXCEPT !.resized = @ + 1]
              IN IF r.error_message # None
                 THEN ListLoopMutant([c1 EXCEPT !.failed_to_resize = @ + 1], meta, elems, rzs,
                               idx + 1,
                               AppendResult(multi,
                                   [img |-> None, src |-> e.src,
                                    meta |-> [meta EXCEPT !.status = "failed_to_resize",
                                                          !.error_message = r.error_message]]),
                               any_success)
                 ELSE ListLoopMutant([c1 EXCEPT !.successes = 1], meta, elems, rzs, idx + 1,
                               AppendResult(multi,
                                   [img |-> r.img, src |-> e.src,
                                    meta |-> SuccessMeta(meta, r)]),
                               TRUE)

\* Lines 291-366: the loop over the fetched elements of a list row. rzs[idx]
\* is what the resizer does for element idx. The value is the context, the
\* list multi_img_results and any_success.
RECURSIVE ListLoop(_, _, _, _, _, _, _)
ListLoop(c, meta, elems, rzs, idx, multi, any_success) ==
    IF idx > Len(elems)
    THEN [c |-> c, multi |-> multi, any_success |-> any_success]
    ELSE LET e == elems[idx] IN
         IF e.err # None
         THEN ListLoop([c EXCEPT !.failed_to_download = @ + 1], meta, elems, rzs, idx + 1,
                       AppendResult(multi,
                           [img |-> None, src |-> e.src,
                            meta |-> [meta EXCEPT !.status = "failed_to_download",
                                                  !.error_message = e.err]]),
                       any_success)
         ELSE IF rzs[idx] = "raise"
         THEN [c |-> [c EXCEPT !.resized = @ + 1, !.raised = TRUE],
               multi |-> multi, any_success |-> any_success]
         ELSE LET r == ResizerReturn(e.img_stream, rzs[idx])
                  c1 == [c EXCEPT !.resized = @ + 1]
              IN IF r.error_message # None
                 THEN ListLoop([c1 EXCEPT !.failed_to_resize = @ + 1], meta, elems, rzs,
                               idx + 1,
                               AppendResult(multi,
                                   [img |-> None, src |-> e.src,
                                    meta |-> [meta EXCEPT !.status = "failed_to_resize",
                                                          !.error_message = r.error_message]]),
                               any_success)
                 ELSE ListLoop([c1 EXCEPT !.successes = @ + 1], meta, elems, rzs, idx + 1,
                               AppendResult(multi,
                                   [img |-> r.img, src |-> e.src,
                                    meta |-> SuccessMeta(meta, r)]),
                               TRUE)

FirstWithImageMutant(multi) == multi[Len(multi)]

\* Lines 382-390: the first entry of multi_img_results with an image.
RECURSIVE FirstWithImage(_)
FirstWithImage(multi) ==
    IF Head(multi).img # None THEN Head(multi) ELSE FirstWithImage(Tail(multi))

\* Lines 372-398: the writer call of a list row.
ListAggregate(l, meta, has_multi, wr) ==
    LET c == [l.c EXCEPT !.multi = l.multi] IN
    IF c.raised THEN c
    ELSE IF l.any_success
    THEN IF has_multi
         THEN WriteMulti(c, l.multi, meta.key, wr)
         ELSE LET f == FirstWithImage(l.multi) IN Write(c, f.img, f.meta, wr)
    ELSE Write(c, None, IF l.multi # <<>> THEN l.multi[1].meta ELSE meta, wr)

\* Lines 261-500: one iteration of the draining loop for the result res of
\* row `row` (sample_data), from the context c.
PostProcess(c, str_key, hash_idx, has_multi, row, res, rzs, wr) ==
    LET meta == BaseMeta(str_key, res.error_message)
    IN AfterTry(IF res.is_list
                THEN ListAggregate(ListLoop(c, meta, res.results, rzs, 1, <<>>, FALSE),
                                   meta, has_multi, wr)
                ELSE SingleBranch(c, meta, hash_idx, row, res, rzs[1], wr))

\* ------------------------------------------------------------- the state
VARIABLES
    thread_count,        \* self.thread_count
    retries,             \* self.retries
    hash_indice,         \* None, or "set" when the verification column is in column_list
    hasMulti,            \* hasattr(sample_writer, 'write_multi_images')
    count,               \* len(shard_to_dl)
    pc,                  \* where __call__ / download_shard stands
    ok,                  \* the first component of what __call__ returned, or None
    shard_exists,        \* the shard file is on the filesystem
    stats,               \* the arguments write_stats was called with
    writer_closed,       \* sample_writer.close() has returned
    pool_terminated,     \* thread_pool.terminate() has been called
    semaphore,           \* the permits of the semaphore
    admitted,            \* rows data_generator has yielded
    taken,               \* rows the workers have taken from the pool's task queue
    fetching,            \* keys a worker is running download_image_with_retry for
    results,             \* keys of the results delivered by the workers, in arrival order
    held,                \* key -> fetched bodies of the row's result not yet closed
    successes,
    failed_to_download,
    failed_to_resize,
    processed,           \* keys whose iteration of the draining loop has ended
    writeCalls,          \* key -> writer calls made for the row
    releases,            \* key -> permits released by the row's iteration
    allSingle,           \* every row processed so far has a single URL
    writeRaised,         \* a call of write or write_multi_images has raised
    rw,                  \* one row on its way through fetch and post-processing
    rt,                  \* a call of download_image_with_retry: inputs and result
    kk,                  \* calls of compute_key for two rows of a shard
    rb                   \* a call of download_image: response, configuration, result

vars ==
    <<thread_count, retries, hash_indice, hasMulti, count, pc, ok, shard_exists, stats,
      writer_closed, pool_terminated, semaphore, admitted, taken, fetching,
      results, held, successes, failed_to_download, failed_to_resize, processed, writeCalls,
      releases, allSingle, writeRaised, rw, rt, kk, rb>>

cfgVars == <<thread_count, retries, hash_indice, hasMulti, count>>

poolVars == <<admitted, taken, fetching, results, held>>

rowVars ==
    <<successes, failed_to_download, failed_to_resize, processed, writeCalls,
      releases, allSingle, writeRaised>>

otherVars == <<rw, rt, kk, rb>>

Keys == 0..(count - 1)

NoStats ==
    [written |-> FALSE, count |-> 0, successes |-> 0, failed_to_download |-> 0,
     failed_to_resize |-> 0]

NoResult ==
    [key |-> 0, is_list |-> FALSE, img_stream |-> None, error_message |-> None,
     results |-> <<>>]

NoRow == [stage |-> "none"]

NoRetryCall == [called |-> FALSE]

NoKeyCall == [called |-> FALSE]

NoRobotsCall == [called |-> FALSE]

\* The shard of the runs: shard 3 of shards of 1000 samples, 10^5 shards.
StrKey(key) == compute_key(key, 3, oom_sample_per_shard(1000), 5)

\* What a server does on the successive requests of one URL: it fails k
\* times, then returns a body.
ServerBehaviours(r) ==
    {[i \in 1..(r + 1) |->
        IF i <= k THEN [img_stream |-> None, err |-> "timed out"]
        ELSE [img_stream |-> b, err |-> None]] : k \in 0..(r + 1), b \in Bodies}

\* The outcome sequences for the elements of a cell, drawn from S for the
\* URLs and fixed for the null elements, which are never requested.
RECURSIVE AttsFor(_, _)
AttsFor(urls, S) ==
    IF urls = <<>> THEN {<<>>}
    ELSE {<<a>> \o rest :
            a \in (IF Head(urls) = None THEN {<<>>} ELSE S),
            rest \in AttsFor(Tail(urls), S)}

\* The tuple download_image_with_retry returns, without the count of calls.
Returned(r) ==
    [key |-> r.key, is_list |-> r.is_list, img_stream |-> r.img_stream,
     error_message |-> r.error_message,
     results |-> [j \in 1..Len(r.results) |->
                    [img_stream |-> r.results[j].img_stream, err |-> r.results[j].err,
                     src |-> r.results[j].src]]]

\* The tuples a worker can deliver for a cell.
FetchResults(key, url, r) ==
    {Returned(download_image_with_retry(key, url, atts, r)) :
        atts \in AttsFor(url.urls, ServerBehaviours(r))}

\* What the resizer does at each of its possible invocations for a result.
RzChoices(res) ==
    [1..(IF res.is_list THEN Len(res.results) ELSE 1) -> ResizerOutcomes]

\* ---------------------------------------------------------- the pipeline
LoopGoesOnMutant(c) == ~c.raised

\* Lines 497-499: `except Exception` catches what the iteration raised, prints
\* it, and the loop goes on with the next result.
LoopGoesOn(c) == TRUE

\* The streams of a result download_image_with_retry returned.
Streams(res) ==
    IF res.is_list
    THEN Cardinality({j \in 1..Len(res.results) : res.results[j].img_stream # None})
    ELSE IF res.img_stream # None THEN 1 ELSE 0

\* What one iteration of the draining loop does to the coordinator's state,
\* for a result that came with `bodies` streams.
Effect(url, res, c) ==
    [is_list |-> url.is_list, bodies |-> Streams(res), successes |-> c.successes,
     failed_to_download |-> c.failed_to_download,
     failed_to_resize |-> c.failed_to_resize, ncalls |-> c.ncalls,
     released |-> c.released, write_raised |-> (c.raised /\ c.ncalls > 0),
     goes_on |-> LoopGoesOn(c)]

\* The iterations a row can have: over the cells of the row, the results
\* the workers can deliver for it, and what the resizer and the writer do.
RowRuns(h, m, r) ==
    UNION {UNION {{Effect(url, res, PostProcess(Ctx(0, 0, 0), StrKey(0), h, m,
                                                [url |-> url, hash |-> PayloadHash],
                                                res, rzs, wr)) :
                      rzs \in RzChoices(res), wr \in WriterOutcomes} :
                  res \in FetchResults(0, url, r)} :
           url \in UrlCells}

\* RowRuns for every configuration of the verification column, the writer
\* and the retries.
RowEffects ==
    {t : t \in UNION {{[h |-> h, m |-> m, r |-> r, e |-> e] : e \in RowRuns(h, m, r)} :
                         h \in {None, "set"}, m \in BOOLEAN, r \in 0..MaxRetries}}

\* The numbers of streams a delivered result can come with.
BodyCounts == {t.e.bodies : t \in RowEffects}

SemaphoreCapacityMutant(threads) == threads * 2 + 1

\* Line 231: Semaphore(self.thread_count * 2).
SemaphoreCapacity(threads) == threads * 2

PipelineIdle ==
    /\ pc = "call"
    /\ ok = None
    /\ shard_exists = TRUE
    /\ stats = NoStats
    /\ writer_closed = FALSE
    /\ pool_terminated = FALSE
    /\ semaphore = 0
    /\ admitted = 0
    /\ taken = 0
    /\ fetching = {}
    /\ results = <<>>
    /\ held = [k \in Keys |-> 0]
    /\ successes = 0
    /\ failed_to_download = 0
    /\ failed_to_resize = 0
    /\ processed = {}
    /\ writeCalls = [k \in Keys |-> 0]
    /\ releases = [k \in Keys |-> 0]
    /\ allSingle = TRUE
    /\ writeRaised = FALSE

\* A constructed Downloader and a shard file of `count` rows, before __call__.
\* The pipeline runs with a verification column and a writer that has
\* write_multi_images; every configuration of a row's post-processing is
\* run in SpecRow.
Init ==
    /\ thread_count \in 1..MaxThreads
    /\ retries = MaxRetries
    /\ hash_indice = "set"
    /\ hasMulti = TRUE
    /\ count \in 0..MaxRows
    /\ PipelineIdle
    /\ rw = NoRow
    /\ rt = NoRetryCall
    /\ kk = NoKeyCall
    /\ rb = NoRobotsCall

\* Lines 177-180: download_shard raised; __call__ returns (False, row).
ReturnFalse ==
    /\ pc' = "returned"
    /\ ok' = "False"

\* Lines 188-238: the shard file is read and the semaphore made, or reading raises.
LoadShard ==
    /\ pc = "call"
    /\ \/ /\ pc' = "writer"
          /\ semaphore' = SemaphoreCapacity(thread_count)
          /\ UNCHANGED ok
       \/ /\ ReturnFalse
          /\ UNCHANGED semaphore
    /\ UNCHANGED <<cfgVars, poolVars, rowVars, otherVars, shard_exists, stats,
                   writer_closed, pool_terminated>>

\* Lines 241-260: the writer is constructed (or its constructor raises) and the
\* pool and the imap_unordered loop start.
MakeWriter ==
    /\ pc = "writer"
    /\ \/ /\ pc' = "drain"
          /\ UNCHANGED ok
       \/ ReturnFalse
    /\ UNCHANGED <<cfgVars, poolVars, rowVars, otherVars, shard_exists, stats,
                   writer_closed, pool_terminated, semaphore>>

\* semaphore.acquire() returns only with a permit.
CanAcquire == semaphore > 0

\* Lines 233-236: data_generator, run by the pool's task thread: acquire a
\* permit, then yield the next (key, url).
data_generator ==
    /\ pc = "drain"
    /\ admitted < count
    /\ CanAcquire
    /\ semaphore' = semaphore - 1
    /\ admitted' = admitted + 1
    /\ UNCHANGED <<cfgVars, rowVars, otherVars, pc, ok, shard_exists, stats, writer_closed,
                   pool_terminated, taken, fetching, results, held>>

\* A free worker of the pool takes the oldest queued row.
WorkerTake ==
    /\ pc = "drain"
    /\ taken < admitted
    /\ Cardinality(fetching) < thread_count
    /\ fetching' = fetching \cup {taken}
    /\ taken' = taken + 1
    /\ UNCHANGED <<cfgVars, rowVars, otherVars, pc, ok, shard_exists, stats, writer_closed,
                   pool_terminated, semaphore, admitted, results, held>>

\* Lines 251-259: a worker's call of download_image_with_retry returns and its
\* result is delivered to the draining loop. What the result holds is read by
\* no one before the loop takes it, and is drawn there; only the number of
\* streams it came with is kept from the delivery on, in the runs that
\* follow the streams (counted).
Deliver(counted) ==
    /\ pc = "drain"
    /\ \E key \in fetching, nb \in (IF counted THEN BodyCounts ELSE {0}) :
          /\ results' = Append(results, key)
          /\ fetching' = fetching \ {key}
          /\ held' = [held EXCEPT ![key] = nb]
    /\ UNCHANGED <<cfgVars, rowVars, otherVars, pc, ok, shard_exists, stats, writer_closed,
                   pool_terminated, semaphore, admitted, taken>>

WorkerFinish == Deliver(FALSE)

\* Lines 260-500: the draining loop takes the next result and post-processes
\* it: one of the iterations RowRuns gives for the row. The row's streams
\* are closed, or dropped, by the end of the iteration.
Drain(counted) ==
    /\ pc = "drain"
    /\ results # <<>>
    /\ LET key == Head(results)
       IN \E t \in RowEffects :
             LET e == t.e IN
             /\ t.h = hash_indice
             /\ t.m = hasMulti
             /\ t.r = retries
             /\ counted => e.bodies = held[key]
             /\ held' = [held EXCEPT ![key] = 0]
             /\ successes' = successes + e.successes
             /\ failed_to_download' = failed_to_download + e.failed_to_download
             /\ failed_to_resize' = failed_to_resize + e.failed_to_resize
             /\ semaphore' = semaphore + e.released
             /\ writeCalls' = [writeCalls EXCEPT ![key] = @ + e.ncalls]
             /\ releases' = [releases EXCEPT ![key] = @ + e.released]
             /\ processed' = processed \cup {key}
             /\ allSingle' = (allSingle /\ ~e.is_list)
             /\ writeRaised' = (writeRaised \/ e.write_raised)
             /\ pc' = (IF e.goes_on THEN pc ELSE "returned")
             /\ ok' = (IF e.goes_on THEN ok ELSE "False")
    /\ results' = Tail(results)
    /\ UNCHANGED <<cfgVars, otherVars, shard_exists, stats, writer_closed,
                   pool_terminated, admitted, taken, fetching>>

DrainResult == Drain(FALSE)

DrainedMutant == admitted = count

\* The imap_unordered iterator is exhausted: the generator has yielded every
\* row and every result has been taken by the loop.
Drained == admitted = count /\ processed = Keys

\* Line 502: sample_writer.close(), or it raises and the with statement
\* terminates the pool on the way out.
CloseWriter ==
    /\ pc = "drain"
    /\ Drained
    /\ \/ /\ pc' = "terminate"
          /\ writer_closed' = TRUE
          /\ UNCHANGED <<ok, pool_terminated>>
       \/ /\ ReturnFalse
          /\ pool_terminated' = TRUE
          /\ UNCHANGED writer_closed
    /\ UNCHANGED <<cfgVars, poolVars, rowVars, otherVars, shard_exists, stats, semaphore>>

\* Lines 503-505: thread_pool.terminate(); thread_pool.join().
TerminatePool ==
    /\ pc = "terminate"
    /\ pc' = "stats"
    /\ pool_terminated' = TRUE
    /\ UNCHANGED <<cfgVars, poolVars, rowVars, otherVars, ok, shard_exists, stats,
                   writer_closed, semaphore>>

\* Lines 507-519: write_stats is called with the counters, or it raises.
WriteStats ==
    /\ pc = "stats"
    /\ \/ /\ pc' = "rm"
          /\ stats' = [written |-> TRUE, count |-> count, successes |-> successes,
                       failed_to_download |-> failed_to_download,
                       failed_to_resize |-> failed_to_resize]
          /\ UNCHANGED ok
       \/ /\ ReturnFalse
          /\ UNCHANGED stats
    /\ UNCHANGED <<cfgVars, poolVars, rowVars, otherVars, shard_exists, writer_closed,
                   pool_terminated, semaphore>>

RemoveShardReturnMutant ==
    /\ shard_exists' = shard_exists
    /\ pc' = "returned"
    /\ ok' = "True"

\* Lines 520 and 176: fs.rm(shard_path) removes the file, download_shard
\* returns and __call__ returns (True, row).
RemoveShardReturn ==
    /\ shard_exists' = FALSE
    /\ pc' = "returned"
    /\ ok' = "True"

\* Line 520: fs.rm(shard_path), or it raises with the file left in place.
RemoveShard ==
    /\ pc = "rm"
    /\ \/ RemoveShardReturn
       \/ /\ ReturnFalse
          /\ UNCHANGED shard_exists
    /\ UNCHANGED <<cfgVars, poolVars, rowVars, otherVars, stats, writer_closed,
                   pool_terminated, semaphore>>

Next ==
    \/ LoadShard
    \/ MakeWriter
    \/ data_generator
    \/ WorkerTake
    \/ WorkerFinish
    \/ DrainResult
    \/ CloseWriter
    \/ TerminatePool
    \/ WriteStats
    \/ RemoveShard

Spec == Init /\ [][Next]_vars

\* The threads of a shard run under a fair scheduler: the pool's task thread
\* running data_generator, the workers (every fetch attempt returns, so every
\* call of download_image_with_retry returns), and the thread of
\* download_shard, whose every call (resizer, writer, write_stats, fs.rm)
\* returns or raises.
Fairness ==
    /\ WF_vars(LoadShard)
    /\ WF_vars(MakeWriter)
    /\ WF_vars(data_generator)
    /\ WF_vars(WorkerTake)
    /\ WF_vars(WorkerFinish)
    /\ WF_vars(DrainResult)
    /\ WF_vars(CloseWriter)
    /\ WF_vars(TerminatePool)
    /\ WF_vars(WriteStats)
    /\ WF_vars(RemoveShard)

\* The shards whose feeder blocks on the semaphore: more rows than permits.
InitFair == Init /\ count > SemaphoreCapacity(thread_count)

SpecFair == InitFair /\ [][Next]_vars /\ Fairness

\* ------------------------------------- the pipeline, streams followed
\* A worker delivers a result with its streams.
WorkerFinishStreams == Deliver(TRUE)

\* The draining loop post-processes a result and closes its streams.
DrainStreams == Drain(TRUE)

NextStreams ==
    \/ LoadShard
    \/ MakeWriter
    \/ data_generator
    \/ WorkerTake
    \/ WorkerFinishStreams
    \/ DrainStreams
    \/ CloseWriter
    \/ TerminatePool
    \/ WriteStats
    \/ RemoveShard

SpecStreams == Init /\ [][NextStreams]_vars

\* ------------------------------------------------------ one row, alone
\* A row of the shard with its cell, under every configuration.
InitRow ==
    /\ thread_count = 1
    /\ retries \in 0..MaxRetries
    /\ hash_indice \in {None, "set"}
    /\ hasMulti \in BOOLEAN
    /\ count = 0
    /\ PipelineIdle
    /\ rw \in {[stage |-> "queued", key |-> k, url |-> u, hash |-> PayloadHash,
                res |-> NoResult, c |-> Ctx(0, 0, 0)] :
                   k \in 0..(MaxRows - 1), u \in UrlCells}
    /\ rt = NoRetryCall
    /\ kk = NoKeyCall
    /\ rb = NoRobotsCall

\* Lines 251-259: a worker runs download_image_with_retry for the row.
RowFetch ==
    /\ rw.stage = "queued"
    /\ \E res \in FetchResults(rw.key, rw.url, retries) :
          rw' = [rw EXCEPT !.stage = "fetched", !.res = res]
    /\ UNCHANGED <<cfgVars, poolVars, rowVars, rt, kk, rb, pc, ok, shard_exists, stats,
                   writer_closed, pool_terminated, semaphore>>

\* Lines 260-500: the draining loop post-processes the row's result.
RowProcess ==
    /\ rw.stage = "fetched"
    /\ \E rzs \in RzChoices(rw.res), wr \in WriterOutcomes :
          rw' = [rw EXCEPT !.stage = "done",
                           !.c = PostProcess(Ctx(0, 0, 0), StrKey(rw.key), hash_indice,
                                             hasMulti, [url |-> rw.url, hash |-> rw.hash],
                                             rw.res, rzs, wr)]
    /\ UNCHANGED <<cfgVars, poolVars, rowVars, rt, kk, rb, pc, ok, shard_exists, stats,
                   writer_closed, pool_terminated, semaphore>>

NextRow == RowFetch \/ RowProcess

SpecRow == InitRow /\ [][NextRow]_vars

\* --------------------------------- download_image_with_retry, alone
\* The outcomes of the calls of download_image in these runs.
RetryOutcomes ==
    {[img_stream |-> "b1", err |-> None]}
        \cup {[img_stream |-> None, err |-> e] : e \in FetchErrors}

NoRetryResult ==
    [key |-> 0, is_list |-> FALSE, img_stream |-> None, error_message |-> None,
     results |-> <<>>, attempts |-> 0]

\* A cell and, for each of its URLs, what the successive requests will give.
InitRetry ==
    /\ thread_count = 1
    /\ retries \in 0..MaxRetries
    /\ hash_indice = None
    /\ hasMulti = FALSE
    /\ count = 0
    /\ PipelineIdle
    /\ rw = NoRow
    /\ rt \in {[called |-> FALSE, url |-> u, atts |-> a, result |-> NoRetryResult] :
                  u \in UrlCells,
                  a \in UNION {AttsFor(v.urls, [1..(retries + 1) -> RetryOutcomes]) :
                                  v \in UrlCells}}
    /\ Len(rt.atts) = Len(rt.url.urls)
    /\ \A j \in 1..Len(rt.atts) : (rt.url.urls[j] = None) <=> (rt.atts[j] = <<>>)
    /\ kk = NoKeyCall
    /\ rb = NoRobotsCall

\* Lines 61-113: the call of download_image_with_retry.
RetryCall ==
    /\ ~rt.called
    /\ rt' = [rt EXCEPT !.called = TRUE,
                        !.result = download_image_with_retry(0, rt.url, rt.atts, retries)]
    /\ UNCHANGED <<cfgVars, poolVars, rowVars, rw, kk, rb, pc, ok, shard_exists, stats,
                   writer_closed, pool_terminated, semaphore>>

NextRetry == RetryCall

SpecRetry == InitRetry /\ [][NextRetry]_vars

\* ------------------------------------------------- compute_key, alone
MaxShardId == 11
MaxSamplesPerShard == 11
MaxOomShardCount == 2
MaxRowIndex == 11

\* The shards, shard sizes and rows of the runs, and the shard of the
\* scenario: shard 3, 1000 samples per shard, 10^5 shards, row 7.
KeyInputs ==
    {[called |-> FALSE, shard_id |-> s, number_sample_per_shard |-> n,
      oom_shard_count |-> q, row1 |-> i, row2 |-> j, key1 |-> <<>>, key2 |-> <<>>] :
         s \in 0..MaxShardId, n \in 1..MaxSamplesPerShard, q \in 0..MaxOomShardCount,
         i \in 0..MaxRowIndex, j \in 0..MaxRowIndex}
      \cup {[called |-> FALSE, shard_id |-> 3, number_sample_per_shard |-> 1000,
             oom_shard_count |-> 5, row1 |-> 7, row2 |-> 8, key1 |-> <<>>, key2 |-> <<>>]}

InitKey ==
    /\ thread_count = 1
    /\ retries = 0
    /\ hash_indice = None
    /\ hasMulti = FALSE
    /\ count = 0
    /\ PipelineIdle
    /\ rw = NoRow
    /\ rt = NoRetryCall
    /\ kk \in KeyInputs
    /\ kk.row1 <= kk.row2
    /\ rb = NoRobotsCall

\* Lines 249 and 263: the keys of two rows of the shard.
KeyCall ==
    /\ ~kk.called
    /\ LET p == oom_sample_per_shard(kk.number_sample_per_shard)
       IN kk' = [kk EXCEPT !.called = TRUE,
                           !.key1 = compute_key(kk.row1, kk.shard_id, p, kk.oom_shard_count),
                           !.key2 = compute_key(kk.row2, kk.shard_id, p, kk.oom_shard_count)]
    /\ UNCHANGED <<cfgVars, poolVars, rowVars, rw, rt, rb, pc, ok, shard_exists, stats,
                   writer_closed, pool_terminated, semaphore>>

NextKey == KeyCall

SpecKey == InitKey /\ [][NextKey]_vars

\* ---------------------------------------------- download_image, alone
\* The characters of the header values of the runs.
HeaderChars == {"noai", "NOAI", "mybot", "MyBot", ":", ",", " "}

\* The header value `mybot: noai, noimageai`.
ScenarioHeader == <<"mybot", ":", " ", "noai", ",", " ", "noimageai">>

HeaderValues ==
    UNION {[1..n -> HeaderChars] : n \in 0..MaxHeaderLen} \cup {ScenarioHeader}

\* The X-Robots-Tag values of a response: none, one, or a value after one
\* that applies to no one's token or to another robot's.
HeaderLists ==
    {<<>>} \cup {<<v>> : v \in HeaderValues}
        \cup {<<w, v>> : w \in {<<"NOAI">>, <<"MyBot", ":", "noai">>}, v \in HeaderValues}

\* self.user_agent_token (line 162): None, or a stripped lowercase string.
UserAgentTokens == {NoToken, Token(<<>>), Token(<<"mybot">>)}

\* self.disallowed_header_directives (lines 163-167): stripped lowercase
\* directives; the empty set also stands for None.
DisallowedSets == {{}, {<<"noai">>}, {<<"mybot">>, <<"noimageai">>}}

NoFetch == [img_stream |-> None, err |-> None]

InitRobots ==
    /\ thread_count = 1
    /\ retries = 0
    /\ hash_indice = None
    /\ hasMulti = FALSE
    /\ count = 0
    /\ PipelineIdle
    /\ rw = NoRow
    /\ rt = NoRetryCall
    /\ kk = NoKeyCall
    /\ rb \in {[called |-> FALSE,
                response |-> [err |-> e, headers |-> hs, body |-> "b1"],
                user_agent_token |-> t, disallowed_header_directives |-> d,
                result |-> NoFetch] :
                   e \in {None}, hs \in HeaderLists, t \in UserAgentTokens,
                   d \in DisallowedSets}
              \cup {[called |-> FALSE,
                     response |-> [err |-> "timed out", headers |-> <<>>, body |-> None],
                     user_agent_token |-> t, disallowed_header_directives |-> d,
                     result |-> NoFetch] :
                        t \in UserAgentTokens, d \in DisallowedSets}

\* Lines 37-58: the call of download_image.
RobotsCall ==
    /\ ~rb.called
    /\ rb' = [rb EXCEPT !.called = TRUE,
                        !.result = download_image(rb.response, rb.user_agent_token,
                                                  rb.disallowed_header_directives)]
    /\ UNCHANGED <<cfgVars, poolVars, rowVars, rw, rt, kk, pc, ok, shard_exists, stats,
                   writer_closed, pool_terminated, semaphore>>

NextRobots == RobotsCall

SpecRobots == InitRobots /\ [][NextRobots]_vars

\* ------------------------------------------------------------ properties
\* Rows data_generator has admitted whose iteration of the draining loop has
\* not ended: queued, being fetched, or delivered and waiting.
InFlight == (admitted - taken) + Cardinality(fetching) + Len(results)

\* The (img, meta) pairs a writer call hands over.
Handed(call) ==
    IF call.op = "write" THEN {[img |-> call.img, meta |-> call.meta]}
    ELSE IF call.op = "write_multi_images"
         THEN {[img |-> call.multi[j].img, meta |-> call.multi[j].meta] :
                  j \in 1..Len(call.multi)}
         ELSE {}

Populated(meta) ==
    /\ meta.width # None
    /\ meta.height # None
    /\ meta.original_width # None
    /\ meta.original_height # None

Srcs(entries) == [j \in 1..Len(entries) |-> entries[j].src]

\* C1: when download_shard has finished (write_stats called), every row of
\* the shard has had exactly one writer call.
C1_EveryRowOneRecord ==
    stats.written => \A k \in Keys : writeCalls[k] = 1

\* C2: the rows in flight never exceed 2 * thread_count.
C2_InFlightBounded == InFlight <= 2 * thread_count

\* C2 witness: a shard larger than the capacity, the capacity used up and
\* the feeder waiting for a permit.
C2_Witness ==
    /\ pc = "drain"
    /\ admitted < count
    /\ InFlight = 2 * thread_count
    /\ semaphore = 0

\* C3: a row's permit is released exactly once, by the end of its
\* iteration and not before, on every path; the permits never exceed
\* 2 * thread_count.
C3_ReleasedExactlyOnce ==
    /\ \A k \in Keys : releases[k] = (IF k \in processed THEN 1 ELSE 0)
    /\ semaphore >= 0
    /\ semaphore <= 2 * thread_count

\* C3 witness: the run is over, one row went through the exception path
\* (no writer call), another was written, each released once.
C3_Witness ==
    /\ stats.written
    /\ \E k \in Keys : writeCalls[k] = 0 /\ releases[k] = 1
    /\ \E k \in Keys : writeCalls[k] = 1 /\ releases[k] = 1
    /\ semaphore = 2 * thread_count

\* C4: for a shard of single-URL rows the counters given to write_stats add
\* up to count.
C4_CountersAddUp ==
    (stats.written /\ allSingle)
        => stats.successes + stats.failed_to_download + stats.failed_to_resize
               = stats.count

\* C5 as stated: with the verification column configured, whatever is handed
\* to the writer as a success comes from a body whose digest is the payload
\* hash, for single-URL and list-URL rows.
C5_HashVerifiedAllRows ==
    (rw.stage = "done" /\ hash_indice # None)
        => \A rec \in Handed(rw.c.call) :
              rec.meta.status = "success" => Digest(BodyOf(rec.img)) = rw.hash

\* C5 amended: the same for single-URL rows only.
C5_HashVerifiedSingle ==
    (rw.stage = "done" /\ hash_indice # None /\ ~rw.url.is_list)
        => \A rec \in Handed(rw.c.call) :
              rec.meta.status = "success" => Digest(rw.res.img_stream) = rw.hash

\* C5 witness: a single-URL row whose body has another digest is written
\* as failed_to_download, "hash mismatch".
C5_Witness ==
    /\ rw.stage = "done"
    /\ hash_indice # None
    /\ ~rw.url.is_list
    /\ rw.res.img_stream = "b2"
    /\ rw.c.call.op = "write"
    /\ rw.c.call.meta.status = "failed_to_download"
    /\ rw.c.call.meta.error_message = "hash mismatch"

\* The first attempt of att that returns a body, 0 if none of the first n does.
FirstBody(att, n) ==
    IF \E i \in 1..n : att[i].img_stream # None
    THEN CHOOSE i \in 1..n :
            /\ att[i].img_stream # None
            /\ \A h \in 1..(i - 1) : att[h].img_stream = None
    ELSE 0

\* What the attempts att must give for one URL: the body of the first
\* successful attempt after that many calls, or the error of attempt
\* retries + 1 after retries + 1 calls.
RetryAsClaimed(r, att) ==
    LET f == FirstBody(att, retries + 1)
    IN IF f # 0
       THEN r.img_stream = att[f].img_stream /\ r.err = None /\ r.attempts = f
       ELSE /\ r.img_stream = None
            /\ r.err = att[retries + 1].err
            /\ r.attempts = retries + 1

NonNullPositions(urls) == {j \in 1..Len(urls) : urls[j] # None}

\* The position in urls of the n-th non-null element.
NthNonNull(urls, n) ==
    CHOOSE j \in NonNullPositions(urls) :
        Cardinality({h \in NonNullPositions(urls) : h <= j}) = n

\* C6: every URL is attempted until the first body, at most retries + 1 times.
C6_RetryBounded ==
    rt.called =>
        IF rt.url.is_list
        THEN /\ Len(rt.result.results) = Cardinality(NonNullPositions(rt.url.urls))
             /\ \A n \in 1..Len(rt.result.results) :
                   RetryAsClaimed(rt.result.results[n],
                                  rt.atts[NthNonNull(rt.url.urls, n)])
        ELSE RetryAsClaimed([img_stream |-> rt.result.img_stream,
                             err |-> rt.result.error_message,
                             attempts |-> rt.result.attempts], rt.atts[1])

\* C6 witness: a single URL that fails `retries` times and then succeeds,
\* with retries > 0.
C6_Witness ==
    /\ rt.called
    /\ ~rt.url.is_list
    /\ retries > 0
    /\ rt.result.attempts = retries + 1
    /\ rt.result.img_stream # None

\* C7: what is handed to the writer as a success has the four dimensions
\* and no error message; for a single-URL row a record with no error
\* message and the four dimensions is a success.
C7_SuccessShape ==
    rw.stage = "done" =>
        /\ \A rec \in Handed(rw.c.call) :
              rec.meta.status = "success"
                  => Populated(rec.meta) /\ rec.meta.error_message = None
        /\ (~rw.url.is_list /\ rw.c.call.op = "write")
              => ((rw.c.call.meta.error_message = None /\ Populated(rw.c.call.meta))
                     => rw.c.call.meta.status = "success")

\* C7 witness: a list row written through write_multi_images with a success
\* and a failure among its sub-outcomes.
C7_Witness ==
    /\ rw.stage = "done"
    /\ rw.c.call.op = "write_multi_images"
    /\ \E rec \in Handed(rw.c.call) : rec.meta.status = "success"
    /\ \E rec \in Handed(rw.c.call) : rec.meta.status # "success"

\* C8: the sub-outcomes of a list row are those of its non-null URLs, in
\* their order, from the fetch to write_multi_images.
C8_ListOrder ==
    /\ (rw.stage \in {"fetched", "done"} /\ rw.url.is_list)
          => Srcs(rw.res.results) = NonNull(rw.url.urls)
    /\ (rw.stage = "done" /\ rw.url.is_list /\ rw.c.ncalls > 0)
          => /\ Srcs(rw.c.multi) = NonNull(rw.url.urls)
             /\ ((hasMulti /\ \E j \in 1..Len(rw.c.multi) :
                                  rw.c.multi[j].meta.status = "success")
                    => /\ rw.c.call.op = "write_multi_images"
                       /\ Srcs(rw.c.call.multi) = NonNull(rw.url.urls))

\* C8 witness: a list with a null element before two URLs, or between
\* them, written through write_multi_images.
C8_Witness ==
    /\ rw.stage = "done"
    /\ rw.url.is_list
    /\ Len(rw.url.urls) > Len(NonNull(rw.url.urls))
    /\ Len(NonNull(rw.url.urls)) >= 1
    /\ rw.c.call.op = "write_multi_images"
    /\ Len(rw.c.call.multi) = Len(NonNull(rw.url.urls))

\* C9: ok = true means the shard file is gone; it goes only after
\* write_stats, which comes only after every row was post-processed and the
\* writer closed; ok = false means the file is still there.
C9_DeletionOrder ==
    /\ ok = "True" => ~shard_exists
    /\ ~shard_exists => stats.written
    /\ stats.written => (writer_closed /\ processed = Keys /\ admitted = count
                            /\ results = <<>> /\ fetching = {})
    /\ ok = "False" => shard_exists

\* C9 witness: a shard of two rows or more processed to the end.
C9_Witness ==
    /\ ok = "True"
    /\ count >= 2
    /\ ~shard_exists

\* The number a string of digits reads as.
RECURSIVE DecimalValue(_)
DecimalValue(str) ==
    IF str = <<>> THEN 0
    ELSE 10 * DecimalValue(SubSeq(str, 1, Len(str) - 1)) + str[Len(str)]

\* The digits a nonnegative integer needs.
NumDigits(n) == CHOOSE d \in 1..20 : n < Pow10(d) /\ (d = 1 \/ n >= Pow10(d - 1))

\* Python's order of strings, on strings of digits.
RECURSIVE StrLess(_, _)
StrLess(a, b) ==
    IF a = <<>> THEN b # <<>>
    ELSE IF b = <<>> THEN FALSE
    ELSE IF Head(a) = Head(b) THEN StrLess(Tail(a), Tail(b))
    ELSE Head(a) < Head(b)

\* p = ceil(log10(samples_per_shard)), stated by what it means.
PClaimed(n) == CHOOSE p \in 0..20 : Pow10(p) >= n /\ (p = 0 \/ Pow10(p - 1) < n)

\* C10 as stated: the key is shard_id * 10^p + row_index in decimal, of
\* exactly p + q characters; keys of distinct rows differ and are ordered as
\* their rows.
C10_KeyExactWidth ==
    kk.called =>
        LET p == PClaimed(kk.number_sample_per_shard)
            q == kk.oom_shard_count
        IN /\ DecimalValue(kk.key1) = kk.shard_id * Pow10(p) + kk.row1
           /\ Len(kk.key1) = p + q
           /\ (kk.row1 < kk.row2) => (kk.key1 # kk.key2 /\ StrLess(kk.key1, kk.key2))

\* C10 amended: the key is that number in decimal, zero-padded to p + q
\* characters and longer only when the number has more digits (so exactly
\* p + q for shard_id < 10^q and row_index < 10^p, given p + q >= 1); keys
\* of distinct rows differ, and are ordered as their rows when the rows are
\* below 10^p.
C10_KeyWidth ==
    kk.called =>
        LET p == PClaimed(kk.number_sample_per_shard)
            q == kk.oom_shard_count
            n == kk.shard_id * Pow10(p) + kk.row1
        IN /\ \A i \in 1..Len(kk.key1) : kk.key1[i] \in 0..9
           /\ DecimalValue(kk.key1) = n
           /\ Len(kk.key1) = (IF NumDigits(n) > p + q THEN NumDigits(n) ELSE p + q)
           /\ (kk.shard_id < Pow10(q) /\ kk.row1 < Pow10(p) /\ p + q >= 1)
                 => Len(kk.key1) = p + q
           /\ (kk.row1 < kk.row2) => kk.key1 # kk.key2
           /\ (kk.row1 < kk.row2 /\ kk.row2 < Pow10(p)) => StrLess(kk.key1, kk.key2)

\* C10 witness: a key that needed zeros on the left, next to the key of a
\* later row of the shard.
C10_Witness ==
    /\ kk.called
    /\ kk.shard_id > 0
    /\ kk.shard_id < Pow10(kk.oom_shard_count)
    /\ kk.row1 < kk.row2
    /\ kk.row2 < Pow10(PClaimed(kk.number_sample_per_shard))
    /\ Len(kk.key1) = PClaimed(kk.number_sample_per_shard) + kk.oom_shard_count
    /\ kk.key1[1] = 0

\* The scenario: shard 3 of shards of 1000 samples, 10^5 shards, row 7.
Scenario ==
    /\ kk.called
    /\ kk.shard_id = 3
    /\ kk.number_sample_per_shard = 1000
    /\ kk.oom_shard_count = 5
    /\ kk.row1 = 7

\* C11 as stated: in the scenario the key of the row is "0000300007".
C11_ScenarioKeyTenChars ==
    Scenario => kk.key1 = <<0, 0, 0, 0, 3, 0, 0, 0, 0, 7>>

\* C11 amended: in the scenario p = 3, the key is 3 * 10^3 + 7 padded to
\* 3 + 5 characters, "00003007".
C11_ScenarioKey ==
    Scenario => kk.key1 = <<0, 0, 0, 0, 3, 0, 0, 7>>

\* C11 witness: the key of the scenario's row has been computed, with its
\* eight characters.
C11_Witness ==
    /\ Scenario
    /\ Len(kk.key1) = 8
    /\ DecimalValue(kk.key1) = 3007

\* C12: an iteration of the draining loop, raising or not, leaves the loop
\* running and the call's outcome open; stats are written only when every
\* row was post-processed and the writer closed, and ok = true only after
\* the stats.
C12_RowExceptionNoAbort ==
    /\ [][(processed' # processed) => (pc' = "drain" /\ ok' = ok)]_vars
    /\ [](stats.written => (processed = Keys /\ writer_closed))
    /\ [](ok = "True" => stats.written)

\* C12 witness: the call returned ok = true for a shard in which the
\* resizer raised for one row (no writer call), the writer's call raised
\* for another, and a third row was processed.
C12_Witness ==
    /\ ok = "True"
    /\ count >= 3
    /\ \E k \in Keys : writeCalls[k] = 0
    /\ writeRaised
    /\ stats.written
    /\ writer_closed

\* C13: when a call of write or write_multi_images has raised, the call
\* returns ok = false and the shard file stays.
C13_WriterExceptionAborts ==
    (writeRaised /\ pc = "returned") => (ok = "False" /\ shard_exists)

\* The sub-outcomes of multi with status st.
CountStatus(multi, st) == Cardinality({j \in 1..Len(multi) : multi[j].meta.status = st})

\* C14: a list row post-processed without exception moves each counter by
\* the number of its sub-outcomes with that status, the three together by
\* the number of its non-null URLs.
C14_ListCounters ==
    (rw.stage = "done" /\ rw.url.is_list /\ ~rw.c.raised)
        => /\ rw.c.successes = CountStatus(rw.c.multi, "success")
           /\ rw.c.failed_to_download = CountStatus(rw.c.multi, "failed_to_download")
           /\ rw.c.failed_to_resize = CountStatus(rw.c.multi, "failed_to_resize")
           /\ rw.c.successes + rw.c.failed_to_download + rw.c.failed_to_resize
                 = Len(NonNull(rw.url.urls))

\* C14 witness: [a, null, b] with a succeeding and b failing to fetch.
C14_Witness ==
    /\ rw.stage = "done"
    /\ rw.url.urls = ScenarioList
    /\ ~rw.c.raised
    /\ Len(rw.c.multi) = 2
    /\ rw.c.multi[1].meta.status = "success"
    /\ rw.c.multi[2].meta.status = "failed_to_download"
    /\ rw.c.successes = 1
    /\ rw.c.failed_to_download = 1
    /\ rw.c.failed_to_resize = 0

\* The ua-token of a header value: the lowercased text left of the first
\* colon, absent when the value has no colon.
UaTokenOf(v) ==
    IF \E i \in 1..Len(v) : v[i] = ":"
    THEN Token(LowerStr(SubSeq(v, 1, Find(v, ":") - 1)))
    ELSE NoToken

\* The directives of a header value: the stretches between commas of the
\* text right of the first colon (of the whole value when it has no colon),
\* trimmed and lowercased.
DirectivesOf(v) ==
    LET text == SubSeq(v, Find(v, ":") + 1, Len(v))
    IN {LowerStr(Strip(SubSeq(text, a, b))) :
           <<a, b>> \in {ab \in (1..(Len(text) + 1)) \X (0..Len(text)) :
                            /\ ab[1] <= ab[2] + 1
                            /\ \A i \in ab[1]..ab[2] : text[i] # ","
                            /\ (ab[1] = 1 \/ text[ab[1] - 1] = ",")
                            /\ (ab[2] = Len(text) \/ text[ab[2] + 1] = ",")}}

\* A header value applies when it has no ua-token or its ua-token is the
\* configured one.
Applies(v, token) == ~UaTokenOf(v).present \/ UaTokenOf(v) = token

\* C15: for a response, download_image returns the disallow failure and no
\* body exactly when a header value that applies has a directive of the
\* configured set.
C15_RobotsTag ==
    (rb.called /\ rb.response.err = None)
        => ((rb.result.err = DisallowedMessage /\ rb.result.img_stream = None)
               <=> \E h \in 1..Len(rb.response.headers) :
                      /\ Applies(rb.response.headers[h], rb.user_agent_token)
                      /\ DirectivesOf(rb.response.headers[h])
                             \cap rb.disallowed_header_directives # {})

\* C15 witness: the header `mybot: noai, noimageai` with ua_token mybot and
\* the disallowed set {noai}.
C15_Witness ==
    /\ rb.called
    /\ rb.response.headers = <<ScenarioHeader>>
    /\ rb.user_agent_token = Token(<<"mybot">>)
    /\ rb.disallowed_header_directives = {<<"noai">>}
    /\ rb.result.err = DisallowedMessage
    /\ rb.result.img_stream = None

\* The single-URL row's body passed verification, or none is configured.
Verified ==
    /\ rw.res.img_stream # None
    /\ (hash_indice = None \/ Digest(rw.res.img_stream) = rw.hash)

\* C16: the resizer runs for a URL only after its fetch gave a body and,
\* for a single-URL row, after verification passed; a fetch error or a hash
\* mismatch ends the row as failed_to_download without the resizer, and
\* failed_to_resize comes only after a fetch and a verification that passed.
C16_ResizerAfterVerify ==
    /\ (rw.stage = "done" /\ ~rw.url.is_list) =>
          /\ rw.c.resized = (IF Verified THEN 1 ELSE 0)
          /\ rw.res.error_message # None
                => /\ rw.c.call.op = "write"
                   /\ rw.c.call.meta.status = "failed_to_download"
                   /\ rw.c.call.meta.error_message = rw.res.error_message
          /\ (rw.res.img_stream # None /\ ~Verified)
                => /\ rw.c.call.op = "write"
                   /\ rw.c.call.meta.status = "failed_to_download"
                   /\ rw.c.call.meta.error_message = "hash mismatch"
          /\ (rw.c.call.op = "write" /\ rw.c.call.meta.status = "failed_to_resize")
                => Verified
          /\ rw.c.failed_to_resize > 0 => (Verified /\ rw.c.failed_to_download = 0)
    /\ (rw.stage = "done" /\ rw.url.is_list) =>
          /\ rw.c.resized
                <= Cardinality({j \in 1..Len(rw.res.results) :
                                   rw.res.results[j].img_stream # None})
          /\ \A j \in 1..Len(rw.c.multi) :
                (rw.res.results[j].img_stream = None)
                    <=> (rw.c.multi[j].meta.status = "failed_to_download")

\* C16 witness: a single-URL row whose body has another digest than the
\* payload's ended as failed_to_download with no resizer invocation.
C16_Witness ==
    /\ rw.stage = "done"
    /\ ~rw.url.is_list
    /\ hash_indice # None
    /\ rw.res.img_stream # None
    /\ Digest(rw.res.img_stream) # rw.hash
    /\ rw.c.resized = 0
    /\ rw.c.failed_to_download = 1
    /\ rw.c.failed_to_resize = 0
    /\ rw.c.call.meta.status = "failed_to_download"

\* C17: a row whose post-processing raised has moved none of the three
\* counters.
C17_RaisedRowNotCounted ==
    (rw.stage = "done" /\ rw.c.raised)
        => /\ rw.c.successes = 0
           /\ rw.c.failed_to_download = 0
           /\ rw.c.failed_to_resize = 0

\* C18: close() is called (the step that leaves the draining loop) only
\* when every row has been fetched and post-processed; once the loop is
\* left no writer call is made; the pool is terminated only by the step
\* that calls close() or after close() returned.
C18_CloseAfterDrain ==
    /\ [][(pc = "drain" /\ pc' # "drain")
            => /\ admitted = count
               /\ taken = count
               /\ fetching = {}
               /\ results = <<>>
               /\ processed = Keys]_vars
    /\ [][(pc # "drain" \/ writer_closed) => writeCalls' = writeCalls]_vars
    /\ [][(~pool_terminated /\ pool_terminated')
            => (writer_closed \/ (pc = "drain" /\ pc' # "drain"))]_vars
    /\ [](writer_closed => processed = Keys)

\* C18 witness: a shard of two rows or more, all written, the writer closed
\* and then the pool terminated.
C18_Witness ==
    /\ count >= 2
    /\ \A k \in Keys : writeCalls[k] = 1
    /\ writer_closed
    /\ pool_terminated
    /\ pc = "stats"

\* The positions of the successful sub-outcomes.
SuccessPositions(multi) == {j \in 1..Len(multi) : multi[j].meta.status = "success"}

\* The first of them.
FirstSuccess(multi) ==
    CHOOSE j \in SuccessPositions(multi) : \A h \in SuccessPositions(multi) : j <= h

\* C19: a list row post-processed without exception has exactly one writer
\* call: with a success among its sub-outcomes, write_multi_images of the
\* whole list when the writer has it, otherwise write of the first
\* successful (img, sub_meta); with no success, write of a null image with
\* the first sub-outcome's meta, or the base meta when there is none.
C19_ListAggregate ==
    (rw.stage = "done" /\ rw.url.is_list /\ ~rw.c.raised)
        => /\ rw.c.ncalls = 1
           /\ rw.c.call.key = StrKey(rw.key)
           /\ IF SuccessPositions(rw.c.multi) # {}
              THEN IF hasMulti
                   THEN /\ rw.c.call.op = "write_multi_images"
                        /\ rw.c.call.multi = rw.c.multi
                        /\ Len(rw.c.call.multi) = Len(NonNull(rw.url.urls))
                   ELSE /\ rw.c.call.op = "write"
                        /\ rw.c.call.img = rw.c.multi[FirstSuccess(rw.c.multi)].img
                        /\ rw.c.call.img # None
                        /\ rw.c.call.meta = rw.c.multi[FirstSuccess(rw.c.multi)].meta
              ELSE /\ rw.c.call.op = "write"
                   /\ rw.c.call.img = None
                   /\ rw.c.call.meta = (IF NonNull(rw.url.urls) # <<>>
                                        THEN rw.c.multi[1].meta
                                        ELSE BaseMeta(StrKey(rw.key), None))

\* C19 witness: a writer without write_multi_images and a list whose first
\* URL failed and whose second succeeded: the second is written.
C19_Witness ==
    /\ rw.stage = "done"
    /\ rw.url.is_list
    /\ ~rw.c.raised
    /\ ~hasMulti
    /\ Len(rw.c.multi) = 2
    /\ rw.c.multi[1].meta.status # "success"
    /\ rw.c.multi[2].meta.status = "success"
    /\ rw.c.call.op = "write"
    /\ rw.c.call.meta = rw.c.multi[2].meta
    /\ rw.c.ncalls = 1

\* C20: every record and every sub-outcome handed to the writer has one of
\* the three statuses.
C20_StatusNeverNull ==
    rw.stage = "done"
        => \A rec \in Handed(rw.c.call) :
              rec.meta.status \in {"success", "failed_to_download", "failed_to_resize"}

\* The fetched bodies held by the results delivered and not yet post-processed.
RECURSIVE SumHeld(_)
SumHeld(n) == IF n = 0 THEN 0 ELSE held[n - 1] + SumHeld(n - 1)

BodiesHeld == SumHeld(count)

\* C21: the fetched bodies held and not yet closed never exceed
\* 2 * thread_count, in shards of single-URL rows and of list-URL rows.
C21_BodiesBounded == BodiesHeld <= 2 * thread_count

\* The feeder waits for a permit.
FeederBlocked == pc = "drain" /\ admitted < count /\ semaphore = 0

\* C22: under fair scheduling a shard run does not deadlock: while the
\* feeder waits for a permit a step of a worker or of the draining loop is
\* possible; a run in the draining loop eventually has every row of the
\* shard (so every admitted row) post-processed and close() called, and
\* then the stats written unless close() or write_stats raised.
C22_NoDeadlock ==
    /\ [](FeederBlocked => (ENABLED WorkerTake \/ ENABLED WorkerFinish \/ ENABLED DrainResult))
    /\ (pc = "drain")
          ~> (processed = Keys /\ pc # "drain"
                /\ ((writer_closed /\ stats.written) \/ ok = "False"))

\* C22 witness: a shard with more rows than permits, in which a row's
\* post-processing raised, has been processed to the stats write.
C22_Witness ==
    /\ count > 2 * thread_count
    /\ processed = Keys
    /\ \E k \in Keys : writeCalls[k] = 0
    /\ writer_closed
    /\ stats.written

====
